---------------------------- MODULE Spec2Model ----------------------------
(***************************************************************************)
(* Embeditor (src/Embeditor/Editor.cc): the row buffer, the incremental    *)
(* syntax highlighter, cursor movement and the incremental search, as a    *)
(* state machine whose steps are the iterations of the two key loops       *)
(* (Editor::edit and Editor::_prompt).                                     *)
(*                                                                         *)
(* Bytes are one-character strings, a std::string is a sequence of bytes.  *)
(* Row positions and columns are zero-based as in the source; the k-th     *)
(* element of a std::vector or std::string is element k+1 of the sequence. *)
(***************************************************************************)
EXTENDS Integers, Sequences, FiniteSets, TLC

(***************************************************************************)
(* Bounds of the model.                                                    *)
(***************************************************************************)
\* keys read per run
MaxKeys == 6
\* longest query typed into the prompt
MaxQuery == 1
\* depth after which the recursion of _updateSyntax is a stack overflow
MaxDepth == 12

(***************************************************************************)
(* Program constants.                                                      *)
(***************************************************************************)
HL_NORMAL    == 0
HL_COMMENT   == 1
HL_MLCOMMENT == 2
HL_KEYWORD1  == 3
HL_KEYWORD2  == 4
HL_STRING    == 5
HL_NUMBER    == 6
HL_MATCH     == 7

HIGHLIGHT_NUMBERS == 1
HIGHLIGHT_STRINGS == 2

\* flags & bit, bit a power of two
HasFlag(flags, bit) == (flags \div bit) % 2 = 1

\* Editor::Editor(): _tabStop(4)
DefaultTabStop == 4

TAB == "\t"

(***************************************************************************)
(* The one entry of HLDB: the C rules.                                     *)
(***************************************************************************)
C_HL_keywords ==
    << <<"s","w","i","t","c","h">>, <<"i","f">>, <<"w","h","i","l","e">>,
       <<"f","o","r">>, <<"b","r","e","a","k">>,
       <<"c","o","n","t","i","n","u","e">>, <<"r","e","t","u","r","n">>,
       <<"e","l","s","e">>, <<"s","t","r","u","c","t">>,
       <<"u","n","i","o","n">>, <<"t","y","p","e","d","e","f">>,
       <<"s","t","a","t","i","c">>, <<"e","n","u","m">>,
       <<"c","l","a","s","s">>, <<"c","a","s","e">>,
       <<"i","n","t","|">>, <<"l","o","n","g","|">>,
       <<"d","o","u","b","l","e","|">>, <<"f","l","o","a","t","|">>,
       <<"c","h","a","r","|">>, <<"u","n","s","i","g","n","e","d","|">>,
       <<"s","i","g","n","e","d","|">>, <<"v","o","i","d","|">> >>

HLDB ==
    [ filetype               |-> "c",
      keywords               |-> C_HL_keywords,
      singleLineCommentStart |-> <<"/", "/">>,
      multiLineCommentStart  |-> <<"/", "*">>,
      multilineCommentEnd    |-> <<"*", "/">>,
      flags                  |-> HIGHLIGHT_NUMBERS + HIGHLIGHT_STRINGS ]

\* _syntax == nullptr
NoSyntax == "none"

(***************************************************************************)
(* Helpers on sequences.                                                   *)
(***************************************************************************)
Min(a, b) == IF a < b THEN a ELSE b

\* std::string::substr(pos, n), pos <= size: at most n bytes from pos
Substr(s, pos, n) == SubSeq(s, pos + 1, Min(pos + n, Len(s)))

\* memset(hl.data() + pos, v, n), the part inside the array
MemSet(hl, pos, v, n) ==
    [k \in 1..Len(hl) |-> IF k > pos /\ k <= pos + n THEN v ELSE hl[k]]

\* n copies of v
Fill(n, v) == [k \in 1..n |-> v]

\* std::string::insert(at, 1, c)
InsertAt(s, at, c) == SubSeq(s, 1, at) \o <<c>> \o SubSeq(s, at + 1, Len(s))

\* erase of the element at position at
EraseAt(s, at) == SubSeq(s, 1, at) \o SubSeq(s, at + 2, Len(s))

(***************************************************************************)
(* isSeparator, isdigit                                                    *)
(***************************************************************************)
Whitespace == {" ", "\t", "\n", "\r", "\f"}
Punctuation ==
    {",", ".", "(", ")", "+", "-", "/", "*", "=", "~", "%", "<", ">", "[",
     "]", ";"}
Digits == {"0", "1", "2", "3", "4", "5", "6", "7", "8", "9"}

isSeparator(c) == c \in Whitespace \/ c \in Punctuation
\* an isdigit that knows no digit
isdigit_Never(c) == FALSE

isdigit(c) == c \in Digits


(***************************************************************************)
(* _update, first half: the rendered text of a row (tabs expanded to the   *)
(* next tab stop).  The loop reads chars.at(j) for j < size.               *)
(***************************************************************************)
RECURSIVE RenderFrom(_, _, _, _, _)
RenderFrom(chars, size, ts, j, render) ==
    IF j >= size THEN render
    ELSE IF chars[j + 1] = TAB
         THEN LET idx == Len(render) + 1
                  pad == (ts - (idx % ts)) % ts
              IN  RenderFrom(chars, size, ts, j + 1,
                             render \o Fill(1 + pad, " "))
         ELSE RenderFrom(chars, size, ts, j + 1, render \o <<chars[j + 1]>>)

RenderOf(chars, size, ts) == RenderFrom(chars, size, ts, 0, <<>>)

(***************************************************************************)
(* _rowCxToRx and _rowRxToCx on the characters of one row.                 *)
(***************************************************************************)
RECURSIVE CxToRxFrom(_, _, _, _, _)
CxToRxFrom(chars, cx, ts, j, rx) ==
    IF j >= cx THEN rx
    ELSE LET r1 == IF chars[j + 1] = TAB
                   THEN rx + (ts - 1) - (rx % ts)
                   ELSE rx
         IN  CxToRxFrom(chars, cx, ts, j + 1, r1 + 1)

\* defined when cx <= Len(chars); beyond that chars.at(j) throws
CxToRx(chars, cx, ts) == CxToRxFrom(chars, cx, ts, 0, 0)

RECURSIVE RxToCxFrom(_, _, _, _, _, _)
RxToCxFrom(chars, size, rx, ts, cx, cur_rx) ==
    IF cx >= size THEN cx
    ELSE LET r1 == IF chars[cx + 1] = TAB
                   THEN cur_rx + (ts - 1) - (cur_rx % ts)
                   ELSE cur_rx
         IN  IF r1 + 1 > rx THEN cx
             ELSE RxToCxFrom(chars, size, rx, ts, cx + 1, r1 + 1)

\* the walk stopping one render column late
RxToCx_Late(chars, size, rx, ts) == RxToCxFrom(chars, size, rx + 1, ts, 0, 0)

\* defined when size <= Len(chars)
RxToCx(chars, size, rx, ts) == RxToCxFrom(chars, size, rx, ts, 0, 0)

(***************************************************************************)
(* _updateSyntax, the scan of one row.                                     *)
(*                                                                         *)
(* After the keyword loop the code reads keywords[j]; when no keyword      *)
(* matched, j == keywords.size() and the read is past the end of the       *)
(* vector.  oob says what that read yields: TRUE, a string that differs    *)
(* from "" (the scan goes round again with prevSep cleared), FALSE, one    *)
(* that equals "" (the scan falls through).                                *)
(*                                                                         *)
(* iters and marks are observers: the iterations of the loop so far, and   *)
(* for every keyword highlighted its position, its index in the list and   *)
(* the value prevSep had when the keyword loop was entered.                *)
(***************************************************************************)
\* keywords[j] without its trailing '|'
KwText(kw) == IF kw[Len(kw)] = "|" THEN SubSeq(kw, 1, Len(kw) - 1) ELSE kw
KwClass(kw) == IF kw[Len(kw)] = "|" THEN HL_KEYWORD2 ELSE HL_KEYWORD1

\* a keyword loop that does not look at the byte behind the candidate
KwHit_Prefix(render, i, kw) ==
    Substr(render, i, Len(KwText(kw))) = KwText(kw)

\* render[i + klen] is the terminating NUL when i + klen = rsize
KwHit(render, i, kw) ==
    LET klen == Len(KwText(kw))
    IN  /\ Substr(render, i, klen) = KwText(kw)
        /\ \/ i + klen >= Len(render)
           \/ isSeparator(render[i + klen + 1])

\* the j at which the keyword loop breaks, 0 when it runs to the end
KwFirst(syn, render, i) ==
    LET hits == {j \in 1..Len(syn.keywords) : KwHit(render, i, syn.keywords[j])}
    IN  IF hits = {} THEN 0
        ELSE CHOOSE j \in hits : \A k \in hits : j <= k

\* a line comment that colours its token only
LineComment_TokenOnly(hl, pos, v, n) == MemSet(hl, pos, v, 2)

\* memset(hl + i, HL_COMMENT, rsize - i)
LineComment(hl, pos, v, n) == MemSet(hl, pos, v, n)

RECURSIVE ScanFrom(_, _, _, _)
ScanFrom(syn, render, oob, st) ==
    LET i     == st.i
        rsize == Len(render)
    IN
    IF i >= rsize THEN st
    ELSE
    LET c       == render[i + 1]
        prev_hl == IF i > 0 THEN st.hl[i] ELSE HL_NORMAL
        scs     == syn.singleLineCommentStart
        mcs     == syn.multiLineCommentStart
        mce     == syn.multilineCommentEnd
        n       == st.iters + 1
        kw      == KwFirst(syn, render, i)
    IN
    IF /\ Len(scs) > 0 /\ st.inString = "" /\ st.inComment = 0
       /\ Substr(render, i, Len(scs)) = scs
    THEN [st EXCEPT !.hl = LineComment(st.hl, i, HL_COMMENT, rsize - i),
                    !.iters = n]
    ELSE IF /\ Len(mcs) > 0 /\ Len(mce) > 0 /\ st.inString = ""
            /\ st.inComment = 1
    THEN IF Substr(render, i, Len(mce)) = mce
         THEN ScanFrom(syn, render, oob,
                  [st EXCEPT !.hl = MemSet(st.hl, i, HL_MLCOMMENT, Len(mce)),
                             !.i = i + Len(mce), !.inComment = 0,
                             !.prevSep = 1, !.iters = n])
         ELSE ScanFrom(syn, render, oob,
                  [st EXCEPT !.hl = MemSet(st.hl, i, HL_MLCOMMENT, 1),
                             !.i = i + 1, !.iters = n])
    ELSE IF /\ Len(mcs) > 0 /\ Len(mce) > 0 /\ st.inString = ""
            /\ Substr(render, i, Len(mcs)) = mcs
    THEN ScanFrom(syn, render, oob,
             [st EXCEPT !.hl = MemSet(st.hl, i, HL_MLCOMMENT, Len(mcs)),
                        !.i = i + Len(mcs), !.inComment = 1, !.iters = n])
    ELSE IF HasFlag(syn.flags, HIGHLIGHT_STRINGS) /\ st.inString # ""
    THEN IF c = "\\" /\ i + 1 < rsize
         THEN ScanFrom(syn, render, oob,
                  [st EXCEPT !.hl = MemSet(st.hl, i, HL_STRING, 2),
                             !.i = i + 2, !.iters = n])
         ELSE ScanFrom(syn, render, oob,
                  [st EXCEPT !.hl = MemSet(st.hl, i, HL_STRING, 1),
                             !.inString = IF c = st.inString THEN ""
                                          ELSE st.inString,
                             !.i = i + 1, !.prevSep = 1, !.iters = n])
    ELSE IF HasFlag(syn.flags, HIGHLIGHT_STRINGS) /\ (c = "\"" \/ c = "'")
    THEN ScanFrom(syn, render, oob,
             [st EXCEPT !.hl = MemSet(st.hl, i, HL_STRING, 1),
                        !.inString = c, !.i = i + 1, !.iters = n])
    ELSE IF /\ HasFlag(syn.flags, HIGHLIGHT_NUMBERS)
            /\ \/ isdigit(c) /\ (st.prevSep = 1 \/ prev_hl = HL_NUMBER)
               \/ c = "." /\ prev_hl = HL_NUMBER
    THEN ScanFrom(syn, render, oob,
             [st EXCEPT !.hl = MemSet(st.hl, i, HL_NUMBER, 1),
                        !.i = i + 1, !.prevSep = 0, !.iters = n])
    ELSE IF st.prevSep # 0 /\ kw # 0
    THEN ScanFrom(syn, render, oob,
             [st EXCEPT !.hl = MemSet(st.hl, i, KwClass(syn.keywords[kw]),
                                      Len(KwText(syn.keywords[kw]))),
                        !.i = i + Len(KwText(syn.keywords[kw])),
                        !.prevSep = 0, !.iters = n,
                        !.marks = Append(@, [at |-> i, j |-> kw,
                                             prevSep |-> st.prevSep])])
    ELSE IF st.prevSep # 0 /\ oob
    THEN ScanFrom(syn, render, oob, [st EXCEPT !.prevSep = 0, !.iters = n])
    ELSE ScanFrom(syn, render, oob,
             [st EXCEPT !.prevSep = IF isSeparator(c) THEN 1 ELSE 0,
                        !.i = i + 1, !.iters = n])

\* the scan of a whole row, started in block-comment state inComment
ScanRow(syn, render, inComment, oob) ==
    ScanFrom(syn, render, oob,
             [i |-> 0, hl |-> Fill(Len(render), HL_NORMAL), prevSep |-> 1,
              inString |-> "", inComment |-> inComment, iters |-> 0,
              marks |-> <<>>])


(***************************************************************************)
(* The editor.  The operations below are functions on the record E of the  *)
(* Editor's fields (the getters of Editor.h) and of the function-local     *)
(* statics of _findAction.  ok = FALSE once an uncaught std::out_of_range  *)
(* (vector::at, string::at) or a stack overflow has ended the process; the *)
(* other fields then keep the values they had at that point, and every     *)
(* operation leaves such a record as it is.                                *)
(*                                                                         *)
(* capacity is _rows.capacity(): an insert into a full vector moves the    *)
(* rows to new storage (libstdc++ and libc++ double the capacity).         *)
(* cascades is an observer: for each _update call of the current step, the *)
(* positions of the rows _updateSyntax scanned, in order.                  *)
(***************************************************************************)
NumRows(E) == Len(E.rows)

\* _rows.at(p)
RowAt(E, p) == E.rows[p + 1]
InRange(E, p) == p >= 0 /\ p < NumRows(E)

Crash(E) == [E EXCEPT !.ok = FALSE]

SetRow(E, p, row) == [E EXCEPT !.rows[p + 1] = row]

\* the observer: a scan of position p joins the current cascade
NoteScan(E, p) ==
    [E EXCEPT !.cascades[Len(E.cascades)] = Append(@, p)]

\* an operation that forgets its _dirty++
Dirtied_Forgotten(E) == E

\* _dirty++, _cx++, _cx--, _cy-- at the end of an operation that returned
Dirtied(E) == IF E.ok THEN [E EXCEPT !.dirty = @ + 1] ELSE E
CxInc(E) == IF E.ok THEN [E EXCEPT !.cx = @ + 1] ELSE E
CxDec(E) == IF E.ok THEN [E EXCEPT !.cx = @ - 1] ELSE E
CyDec(E) == IF E.ok THEN [E EXCEPT !.cy = @ - 1] ELSE E

(***************************************************************************)
(* _updateSyntax(Row& row), row being the row at position p.  depth counts *)
(* the nested calls.                                                       *)
(***************************************************************************)
\* row.hl.resize(rsize); memset(..., HL_NORMAL, rsize)
Blanked(E, p) ==
    [E EXCEPT !.rows[p + 1].hl = Fill(RowAt(E, p).rsize, HL_NORMAL)]

\* inComment at the start of the scan
Seed(E, p) ==
    IF RowAt(E, p).idx > 0
       /\ RowAt(E, RowAt(E, p).idx - 1).hl_open_comment # 0
    THEN 1 ELSE 0

RECURSIVE UpdateSyntax(_, _, _, _)

\* the end of _updateSyntax without the call for the next row
Cascade_Stops(E, p, oob, depth, st) ==
    NoteScan(SetRow(E, p, [RowAt(E, p) EXCEPT !.hl = st.hl,
                                              !.hl_open_comment = st.inComment]),
             p)

\* the end of _updateSyntax, st being the state the scan ended in
Cascade(E, p, oob, depth, st) ==
    LET row == RowAt(E, p)
        E1  == NoteScan(SetRow(E, p, [row EXCEPT !.hl = st.hl,
                                      !.hl_open_comment = st.inComment]), p)
    IN  IF /\ row.hl_open_comment # st.inComment
           /\ row.idx + 1 >= 0 /\ row.idx + 1 < NumRows(E)
        THEN IF depth >= MaxDepth THEN Crash(E1)
             ELSE UpdateSyntax(E1, row.idx + 1, oob, depth + 1)
        ELSE E1

UpdateSyntax(E, p, oob, depth) ==
    IF E.syntax = NoSyntax THEN Blanked(E, p)
    ELSE IF RowAt(E, p).idx > 0 /\ ~InRange(E, RowAt(E, p).idx - 1)
    THEN Crash(Blanked(E, p))
    ELSE Cascade(E, p, oob, depth,
                 ScanRow(HLDB, RowAt(E, p).render, Seed(E, p), oob))

(***************************************************************************)
(* _update(rowIndex)                                                       *)
(***************************************************************************)
Rendered(E, p) ==
    LET row    == RowAt(E, p)
        render == RenderOf(row.chars, row.size, E.tabStop)
    IN  [E EXCEPT !.rows[p + 1].render = render,
                  !.rows[p + 1].rsize = Len(render),
                  !.cascades = Append(@, <<>>)]

Update(E, rowIndex, oob) ==
    IF ~E.ok THEN E
    ELSE IF ~InRange(E, rowIndex) THEN Crash(E)
    ELSE IF RowAt(E, rowIndex).size > Len(RowAt(E, rowIndex).chars)
    THEN Crash(E)
    ELSE UpdateSyntax(Rendered(E, rowIndex), rowIndex, oob, 0)

(***************************************************************************)
(* _insertRow(s, at)                                                       *)
(***************************************************************************)
GrowCapacity(cap) == IF cap = 0 THEN 1 ELSE 2 * cap

NewRow(s, at) ==
    [idx |-> at, size |-> Len(s), rsize |-> 0, chars |-> s, render |-> <<>>,
     hl |-> <<>>, hl_open_comment |-> 0]

\* _rows.insert(_rows.begin() + at, row)
VectorInsert(E, row, at) ==
    [E EXCEPT !.rows = SubSeq(@, 1, at) \o <<row>>
                       \o SubSeq(@, at + 1, Len(@)),
              !.capacity = IF NumRows(E) = @ THEN GrowCapacity(@) ELSE @]

InsertRow(E, s, at, oob) ==
    IF ~E.ok THEN E
    ELSE IF at >= 0 /\ at <= NumRows(E)
    THEN Dirtied(Update(VectorInsert(E, NewRow(s, at), at), at, oob))
    ELSE E

(***************************************************************************)
(* _delRow(at)                                                             *)
(***************************************************************************)
\* _rows.erase(_rows.begin() + at) and the loop over the rows behind it
VectorErase(rows, at) ==
    [k \in 1..(Len(rows) - 1) |->
        IF k - 1 >= at THEN [rows[k + 1] EXCEPT !.idx = @ - 1] ELSE rows[k]]

DelRow(E, at) ==
    IF ~E.ok THEN E
    ELSE IF at < 0 \/ at >= NumRows(E) THEN E
    ELSE [E EXCEPT !.rows = VectorErase(@, at), !.dirty = @ + 1]

(***************************************************************************)
(* _rowInsertChar, _rowAppendString, _rowDelChar; row is the row at        *)
(* position p (the callers pass _rows.at(p)).                              *)
(***************************************************************************)
ClampAt(row, at) == IF at < 0 \/ at > row.size THEN row.size ELSE at

RowInsertChar(E, p, at, c, oob) ==
    IF ~E.ok THEN E
    ELSE Dirtied(Update(
             [E EXCEPT !.rows[p + 1].chars =
                           InsertAt(@, ClampAt(RowAt(E, p), at), c),
                       !.rows[p + 1].size = @ + 1],
             RowAt(E, p).idx, oob))

\* the string put in front of the row's characters
RowAppendString_Front(E, p, s, oob) ==
    IF ~E.ok THEN E
    ELSE Dirtied(Update(
             [E EXCEPT !.rows[p + 1].chars = s \o @,
                       !.rows[p + 1].size = @ + Len(s)],
             RowAt(E, p).idx, oob))

RowAppendString(E, p, s, oob) ==
    IF ~E.ok THEN E
    ELSE Dirtied(Update(
             [E EXCEPT !.rows[p + 1].chars = @ \o s,
                       !.rows[p + 1].size = @ + Len(s)],
             RowAt(E, p).idx, oob))

\* a _rowDelChar that leaves out its _update(row.idx)
RowDelChar_Unscanned(E, p, at, oob) ==
    IF ~E.ok THEN E
    ELSE IF at < 0 \/ at >= RowAt(E, p).size THEN E
    ELSE Dirtied([E EXCEPT !.rows[p + 1].chars = EraseAt(@, at),
                           !.rows[p + 1].size = @ - 1])

RowDelChar(E, p, at, oob) ==
    IF ~E.ok THEN E
    ELSE IF at < 0 \/ at >= RowAt(E, p).size THEN E
    ELSE Dirtied(Update(
             [E EXCEPT !.rows[p + 1].chars = EraseAt(@, at),
                       !.rows[p + 1].size = @ - 1],
             RowAt(E, p).idx, oob))

(***************************************************************************)
(* _insertChar(c)                                                          *)
(***************************************************************************)
\* the part after `if (_cy == numRows) _insertRow("", numRows)`
InsertCharAtCursor(E, c, oob) ==
    IF ~E.ok THEN E
    ELSE IF ~InRange(E, E.cy) THEN Crash(E)
    ELSE CxInc(RowInsertChar(E, E.cy, E.cx, c, oob))

InsertChar(E, c, oob) ==
    InsertCharAtCursor(IF E.ok /\ E.cy = NumRows(E)
                       THEN InsertRow(E, <<>>, NumRows(E), oob) ELSE E,
                       c, oob)

(***************************************************************************)
(* _insertNewLine.  In the else branch `row` is a reference to _rows[_cy]  *)
(* taken before _insertRow.  When the insert moved the rows to new storage *)
(* (the capacity is not cap0 any more) the reference dangles and           *)
(* `row = ...; row.size = ...; row.chars.resize(...)` write to freed       *)
(* storage: the live row keeps its characters (ub = FALSE) or the process  *)
(* dies of the damaged heap (ub = TRUE).                                   *)
(***************************************************************************)
TruncateRow(E, p, n) ==
    [E EXCEPT !.rows[p + 1].size = n,
              !.rows[p + 1].chars = SubSeq(@, 1, n)]

\* the statements after _insertRow in the else branch
SplitRow(E, cap0, oob, ub) ==
    IF ~E.ok THEN E
    ELSE IF E.capacity # cap0
    THEN IF ub THEN Crash(E) ELSE Update(E, E.cy, oob)
    ELSE Update(TruncateRow(E, E.cy, E.cx), E.cy, oob)

\* _cy++; _cx = 0
NextLine(E) == IF E.ok THEN [E EXCEPT !.cy = @ + 1, !.cx = 0] ELSE E

InsertNewLine(E, oob, ub) ==
    IF ~E.ok THEN E
    ELSE IF E.cx = 0 THEN NextLine(InsertRow(E, <<>>, E.cy, oob))
    ELSE IF ~InRange(E, E.cy) THEN Crash(E)
    ELSE NextLine(SplitRow(
             InsertRow(E, SubSeq(RowAt(E, E.cy).chars, E.cx + 1,
                                 Len(RowAt(E, E.cy).chars)),
                       E.cy + 1, oob),
             E.capacity, oob, ub))

(***************************************************************************)
(* _delChar                                                                *)
(***************************************************************************)
DelChar(E, oob) ==
    IF ~E.ok THEN E
    ELSE IF E.cy = NumRows(E) THEN E
    ELSE IF E.cx = 0 /\ E.cy = 0 THEN E
    ELSE IF ~InRange(E, E.cy) THEN Crash(E)
    ELSE IF E.cx > 0 THEN CxDec(RowDelChar(E, E.cy, E.cx - 1, oob))
    ELSE CyDec(DelRow(
             RowAppendString([E EXCEPT !.cx = RowAt(E, E.cy - 1).size],
                             E.cy - 1, RowAt(E, E.cy).chars, oob),
             E.cy))

(***************************************************************************)
(* _moveCursor(key)                                                        *)
(***************************************************************************)
\* the switch
Moved(E, key) ==
    CASE key = "ARROW_LEFT" ->
           IF E.cx # 0 THEN [E EXCEPT !.cx = @ - 1]
           ELSE IF E.cy > 0
                THEN [E EXCEPT !.cy = @ - 1, !.cx = RowAt(E, E.cy - 1).size]
                ELSE E
      [] key = "ARROW_RIGHT" ->
           IF E.cy < NumRows(E) /\ E.cx < RowAt(E, E.cy).size
           THEN [E EXCEPT !.cx = @ + 1]
           ELSE IF E.cy < NumRows(E) /\ E.cx = RowAt(E, E.cy).size
                THEN [E EXCEPT !.cy = @ + 1, !.cx = 0]
                ELSE E
      [] key = "ARROW_UP" ->
           IF E.cy # 0 THEN [E EXCEPT !.cy = @ - 1] ELSE E
      [] key = "ARROW_DOWN" ->
           IF E.cy < NumRows(E) THEN [E EXCEPT !.cy = @ + 1] ELSE E
      [] OTHER -> E

\* the snap of _cx to the length of the row the cursor is on now
Snapped(E) ==
    LET rowlen == IF E.cy < NumRows(E) THEN RowAt(E, E.cy).size ELSE 0
    IN  IF E.cx > rowlen THEN [E EXCEPT !.cx = rowlen] ELSE E

MoveCursor(E, key) == IF ~E.ok THEN E ELSE Snapped(Moved(E, key))

RECURSIVE MoveCursorTimes(_, _, _)
MoveCursorTimes(E, key, times) ==
    IF times = 0 THEN E
    ELSE MoveCursorTimes(MoveCursor(E, key), key, times - 1)

(***************************************************************************)
(* _processKeypress: HOME_KEY, END_KEY, PAGE_UP and PAGE_DOWN              *)
(***************************************************************************)
Home(E) == IF E.ok THEN [E EXCEPT !.cx = 0] ELSE E

End(E) ==
    IF E.ok /\ E.cy < NumRows(E)
    THEN [E EXCEPT !.cx = RowAt(E, E.cy).size] ELSE E

Page(E, k) ==
    IF ~E.ok THEN E
    ELSE IF k = "PAGE_UP"
    THEN MoveCursorTimes([E EXCEPT !.cy = E.rowOffset], "ARROW_UP",
                         E.screenRows)
    ELSE MoveCursorTimes([E EXCEPT !.cy = Min(E.rowOffset + E.screenRows - 1,
                                              NumRows(E))],
                         "ARROW_DOWN", E.screenRows)

(***************************************************************************)
(* _scroll, the part of _refreshScreen that changes the Editor.            *)
(* _rowCxToRx reads chars.at(j) for every j < _cx.                         *)
(***************************************************************************)
\* the four ifs without the two that pull the window down and right
Scrolled_NoFarEdge(E, rx) ==
    [E EXCEPT !.rx = rx,
              !.rowOffset = IF E.cy < @ THEN E.cy ELSE @,
              !.colOffset = IF rx < @ THEN rx ELSE @]

\* the four ifs, rx being the new _rx
Scrolled(E, rx) ==
    LET ro1 == IF E.cy < E.rowOffset THEN E.cy ELSE E.rowOffset
        ro2 == IF E.cy >= ro1 + E.screenRows
               THEN E.cy - E.screenRows + 1 ELSE ro1
        co1 == IF rx < E.colOffset THEN rx ELSE E.colOffset
        co2 == IF rx >= co1 + E.screenCols
               THEN rx - E.screenCols + 1 ELSE co1
    IN  [E EXCEPT !.rx = rx, !.rowOffset = ro2, !.colOffset = co2]

\* a scroll that always puts the cursor row on the top line of the window
Scroll_ToTop(E) ==
    IF ~E.ok THEN E
    ELSE IF E.cy >= NumRows(E) THEN [Scrolled(E, 0) EXCEPT !.rowOffset = E.cy]
    ELSE IF E.cx > Len(RowAt(E, E.cy).chars) THEN Crash([E EXCEPT !.rx = 0])
    ELSE [Scrolled(E, CxToRx(RowAt(E, E.cy).chars, E.cx, E.tabStop))
            EXCEPT !.rowOffset = E.cy]

Scroll(E) ==
    IF ~E.ok THEN E
    ELSE IF E.cy >= NumRows(E) THEN Scrolled(E, 0)
    ELSE IF E.cx > Len(RowAt(E, E.cy).chars) THEN Crash([E EXCEPT !.rx = 0])
    ELSE Scrolled(E, CxToRx(RowAt(E, E.cy).chars, E.cx, E.tabStop))

(***************************************************************************)
(* _findAction(query, key), the callback of the search prompt.             *)
(* last_match, direction, savedHl and savedHlLine are its statics.         *)
(***************************************************************************)
\* strstr(render, query): the offset of the first occurrence, -1 for NULL
StrStr(render, query) ==
    LET hits == {m \in 0..Len(render) :
                    /\ m + Len(query) <= Len(render)
                    /\ Substr(render, m, Len(query)) = query}
    IN  IF hits = {} THEN -1
        ELSE CHOOSE m \in hits : \A k \in hits : m <= k

\* the body of `if (match)`, m being match - row.render.c_str().  A memset
\* past the end of a shorter hl array overruns the heap block: the bytes
\* inside the array are written and the process goes on (ub = FALSE) or it
\* dies (ub = TRUE)
Hit(E, query, current, m) ==
    [E EXCEPT
       !.last_match = current,
       !.cy = current,
       !.cx = RxToCx(RowAt(E, RowAt(E, current).idx).chars,
                     RowAt(E, RowAt(E, current).idx).size, m, E.tabStop),
       !.rowOffset = NumRows(E),
       !.savedHlLine = current,
       !.savedHl = RowAt(E, current).hl,
       !.rows[current + 1].hl = MemSet(@, m, HL_MATCH, Len(query))]

FindHit(E, query, current, m, ub) ==
    IF ~InRange(E, RowAt(E, current).idx)
    THEN Crash([E EXCEPT !.last_match = current, !.cy = current])
    ELSE IF m + Len(query) > Len(RowAt(E, current).hl) /\ ub
    THEN Crash(Hit(E, query, current, m))
    ELSE Hit(E, query, current, m)

\* current += direction, with the wrap at both ends
Advance(E, current) ==
    IF current + E.direction = -1 THEN NumRows(E) - 1
    ELSE IF current + E.direction = NumRows(E) THEN 0
    ELSE current + E.direction

RECURSIVE FindLoop(_, _, _, _, _)

\* one pass of the for loop, current being the row it looks at
FindStep(E, query, i, current, ub) ==
    IF ~InRange(E, current) THEN Crash(E)
    ELSE IF StrStr(RowAt(E, current).render, query) # -1
    THEN FindHit(E, query, current,
                 StrStr(RowAt(E, current).render, query), ub)
    ELSE FindLoop(E, query, i + 1, current, ub)

FindLoop(E, query, i, current, ub) ==
    IF i >= NumRows(E) THEN E
    ELSE FindStep(E, query, i, Advance(E, current), ub)

\* if (savedHl.size() > 0) { _rows.at(savedHlLine).hl = savedHl; ... }
RestoreHl(E) ==
    IF Len(E.savedHl) = 0 THEN E
    ELSE IF ~InRange(E, E.savedHlLine) THEN Crash(E)
    ELSE [E EXCEPT !.rows[E.savedHlLine + 1].hl = E.savedHl,
                   !.savedHl = <<>>]

\* the if chain on key and `if (last_match == -1) direction = 1`
Steered(E, key) ==
    IF key = "ARROW_RIGHT" \/ key = "ARROW_DOWN"
    THEN [E EXCEPT !.direction = 1]
    ELSE IF key = "ARROW_LEFT" \/ key = "ARROW_UP"
    THEN [E EXCEPT !.direction = IF E.last_match = -1 THEN 1 ELSE -1]
    ELSE [E EXCEPT !.last_match = -1, !.direction = 1]

\* _findAction after the restore
FindFrom(E, query, key, ub) ==
    IF ~E.ok THEN E
    ELSE IF key = "ENTER" \/ key = "ESC"
    THEN [E EXCEPT !.last_match = -1, !.direction = 1]
    ELSE FindLoop(Steered(E, key), query, 0, Steered(E, key).last_match, ub)

FindAction(E, query, key, ub) ==
    IF ~E.ok THEN E ELSE FindFrom(RestoreHl(E), query, key, ub)

(***************************************************************************)
(* _selectSyntaxHighlight: the rule whose filematch list holds the         *)
(* extension of the file name (from its last '.').                         *)
(***************************************************************************)
C_HL_extensions == { <<".", "c">>, <<".", "h">>, <<".", "c", "p", "p">>,
                     <<".", "c", "c">> }

\* _filename.rfind("."), -1 for npos
RFindDot(name) ==
    LET dots == {k \in 0..(Len(name) - 1) : name[k + 1] = "."}
    IN  IF dots = {} THEN -1 ELSE CHOOSE k \in dots : \A j \in dots : j <= k

SyntaxFor(name) ==
    IF Len(name) = 0 \/ RFindDot(name) = -1 THEN NoSyntax
    ELSE IF SubSeq(name, RFindDot(name) + 1, Len(name)) \in C_HL_extensions
         THEN HLDB.filetype ELSE NoSyntax

(***************************************************************************)
(* Editor::Editor(), Editor::open(filename) and the head of Editor::edit   *)
(***************************************************************************)
EDIT_QUIT_TIMES == 3

\* _status: the format of the message and the number it prints, 0 when
\* the format has none
NoStatus == [text |-> "", bytes |-> 0]

\* setStatus(fmt, ...)
SetStatus(E, fmt, n) ==
    IF E.ok THEN [E EXCEPT !.status = [text |-> fmt, bytes |-> n]] ELSE E

Constructed ==
    [rows |-> <<>>, cx |-> 0, cy |-> 0, rx |-> 0, rowOffset |-> 0,
     colOffset |-> 0, screenRows |-> 25, screenCols |-> 80,
     dirty |-> 0, filename |-> <<>>, syntax |-> NoSyntax,
     status |-> NoStatus, quitTimes |-> EDIT_QUIT_TIMES,
     tabStop |-> DefaultTabStop, capacity |-> 0, ok |-> TRUE,
     cascades |-> <<>>, last_match |-> -1, direction |-> 1,
     savedHl |-> <<>>, savedHlLine |-> 0]

\* the size _windowSize stores: the terminal's columns and its rows less
\* the two bars
TermRows == 2
TermCols == 3

\* edit() up to its loop
Started(E) ==
    SetStatus([E EXCEPT !.screenRows = TermRows, !.screenCols = TermCols],
              "HELP", 0)

RECURSIVE LoadLines(_, _, _)
LoadLines(E, lines, k) ==
    IF k > Len(lines) THEN E
    ELSE LoadLines(InsertRow(E, lines[k], NumRows(E), FALSE), lines, k + 1)

Open(E, name, lines) ==
    [LoadLines([E EXCEPT !.filename = name, !.syntax = SyntaxFor(name)],
               lines, 1)
       EXCEPT !.dirty = 0, !.cascades = <<>>]

(***************************************************************************)
(* The file as bytes: what open() makes of them and what _save writes.     *)
(***************************************************************************)
LF == "\n"
CR == "\r"

\* the loop that drops '\n' and '\r' from the end of a line
RECURSIVE Strip(_)
Strip(line) ==
    IF Len(line) > 0 /\ line[Len(line)] \in {LF, CR}
    THEN Strip(SubSeq(line, 1, Len(line) - 1))
    ELSE line

\* where getline stops reading from position from: at the first '\n' or at
\* the end of the file
LineEnd(bytes, from) ==
    LET ends == {k \in from..Len(bytes) : bytes[k] = LF}
    IN  IF ends = {} THEN Len(bytes)
        ELSE CHOOSE k \in ends : \A j \in ends : k <= j

\* the getline loop of open(): the lines of the file, stripped
RECURSIVE GetLines(_, _)
GetLines(bytes, from) ==
    IF from > Len(bytes) THEN <<>>
    ELSE <<Strip(SubSeq(bytes, from, LineEnd(bytes, from)))>>
         \o GetLines(bytes, LineEnd(bytes, from) + 1)

\* open() on a file that fopen can read
OpenFile(E, name, bytes) == Open(E, name, GetLines(bytes, 1))

\* the bytes the fwrite calls of _save hand over for the first k rows
RECURSIVE Written(_, _)
Written(E, k) ==
    IF k = 0 THEN <<>> ELSE Written(E, k - 1) \o E.rows[k].chars

\* a file made of lines that each end with the bytes of eol
RECURSIVE Terminated(_, _)
Terminated(lines, eol) ==
    IF lines = <<>> THEN <<>>
    ELSE Head(lines) \o eol \o Terminated(Tail(lines), eol)

\* the files that exist: a function from the names to the bytes
NoFiles == [n \in {} |-> <<>>]
OneFile(name, bytes) == [n \in {name} |-> bytes]
Put(fs, name, bytes) ==
    [n \in DOMAIN fs \cup {name} |-> IF n = name THEN bytes ELSE fs[n]]

(***************************************************************************)
(* _drawRows: what it appends to the output buffer, as a sequence of       *)
(* tokens.  A byte of a row is the token of that byte; an escape sequence  *)
(* is one token, ESC standing for the byte 0x1b.                           *)
(***************************************************************************)
FF == "\f"

Invert    == "ESC[7m"
Reset     == "ESC[m"
FgDefault == "ESC[39m"
ClearEol  == "ESC[K"
CrLf      == "\r\n"

\* snprintf(cbuf, sizeof(cbuf), "\x1b[%dm", color)
Sgr(color) == "ESC[" \o ToString(color) \o "m"

\* iscntrl on the bytes below 0x20 that the model's rows can hold
iscntrl(c) == c \in {TAB, LF, FF, CR}

\* '@' + c for a control byte c <= 26
Sym(c) ==
    CASE c = TAB -> "I"
      [] c = LF  -> "J"
      [] c = FF  -> "L"
      [] c = CR  -> "M"

SyntaxToColor(hl) ==
    CASE hl \in {HL_COMMENT, HL_MLCOMMENT} -> 36
      [] hl = HL_KEYWORD1 -> 33
      [] hl = HL_KEYWORD2 -> 32
      [] hl = HL_STRING   -> 35
      [] hl = HL_NUMBER   -> 31
      [] hl = HL_MATCH    -> 34
      [] OTHER            -> 37

\* a test that would send the escape in front of every coloured byte
Differs_Always(color, current) == TRUE

\* color != current_color
Differs(color, current) == color # current

\* the loop over the bytes of a row: c and hl are the row's render and hl
\* from colOffset on, current is current_color, buf what was appended
RECURSIVE DrawFrom(_, _, _, _, _, _)
DrawFrom(c, hl, len, j, current, buf) ==
    IF j >= len THEN buf
    ELSE IF iscntrl(c[j + 1])
    THEN DrawFrom(c, hl, len, j + 1, current,
                  buf \o <<Invert, Sym(c[j + 1]), Reset>>
                      \o (IF current # -1 THEN <<Sgr(current)>> ELSE <<>>))
    ELSE IF hl[j + 1] = HL_NORMAL
    THEN DrawFrom(c, hl, len, j + 1, -1,
                  buf \o (IF current # -1 THEN <<FgDefault>> ELSE <<>>)
                      \o <<c[j + 1]>>)
    ELSE LET color == SyntaxToColor(hl[j + 1])
         IN  DrawFrom(c, hl, len, j + 1, color,
                      buf \o (IF Differs(color, current)
                              THEN <<Sgr(color)>> ELSE <<>>)
                          \o <<c[j + 1]>>)

\* len: the bytes of the row from colOffset on, at most screenCols of them
DrawnLen(row, colOffset, screenCols) ==
    LET len == row.rsize - colOffset
    IN  IF len < 0 THEN 0 ELSE IF len > screenCols THEN screenCols ELSE len

\* the else branch: the row at filerow
DrawFileRow(row, colOffset, screenCols) ==
    DrawFrom(SubSeq(row.render, colOffset + 1, Len(row.render)),
             SubSeq(row.hl, colOffset + 1, Len(row.hl)),
             DrawnLen(row, colOffset, screenCols), 0, -1, <<>>)
    \o <<FgDefault>>

\* snprintf(welcome, sizeof(welcome), WELCOME_FMT, EDIT_VERSION)
Welcome ==
    <<"E", "d", "i", "t", "o", "r", " ", "-", "-", " ", "v", "e", "r",
      "s", "i", "o", "n", " ", "0", ".", "0", ".", "1">>

\* the welcome line of an editor without rows
DrawWelcome(screenCols) ==
    LET welcomeLen == Min(Len(Welcome), screenCols)
        padding    == (screenCols - welcomeLen) \div 2
    IN  (IF padding # 0 THEN <<"~">> \o Fill(padding - 1, " ") ELSE <<>>)
        \o SubSeq(Welcome, 1, welcomeLen)

\* one iteration of the loop over the lines of the window
DrawLine(E, y) ==
    LET filerow == y + E.rowOffset
    IN  (IF filerow >= NumRows(E)
         THEN IF NumRows(E) = 0 /\ y = E.screenRows \div 3
              THEN DrawWelcome(E.screenCols)
              ELSE <<"~">>
         ELSE DrawFileRow(RowAt(E, filerow), E.colOffset, E.screenCols))
        \o <<ClearEol, CrLf>>

RECURSIVE DrawLines(_, _)
DrawLines(E, y) ==
    IF y >= E.screenRows THEN <<>> ELSE DrawLine(E, y) \o DrawLines(E, y + 1)

DrawRows(E) == DrawLines(E, 0)

(***************************************************************************)
(* The files the runs start from and the bytes the keyboard sends.         *)
(***************************************************************************)
NameC   == <<"a", ".", "c">>
NameTxt == <<"a", ".", "t", "x", "t">>

Files ==
    { [name |-> NameC,   lines |-> << <<"/", "*", "*">>, <<TAB, "/">> >>],
      [name |-> NameTxt, lines |-> << <<"/", TAB>> >>] }

TypedChars == {"/", "*"}
ArrowKeys  == {"ARROW_LEFT", "ARROW_RIGHT", "ARROW_UP", "ARROW_DOWN"}
PageKeys   == {"PAGE_UP", "PAGE_DOWN"}

(***************************************************************************)
(* State.                                                                  *)
(*   ed     the Editor object and the statics of _findAction               *)
(*   mode   where the process waits for a key: "edit" in _processKeypress, *)
(*          "find" in the _prompt that _find opened                        *)
(*   buf    the prompt's buffer                                            *)
(*   saved  the locals savedCx, savedCy, savedColOffset, savedRowOffset of *)
(*          _find while its prompt is open                                 *)
(*   keys   keys read so far (_readKey returns)                            *)
(*   split  an observer: when the key just handled was Enter on an         *)
(*          existing row, the text and the cursor _insertNewLine started   *)
(*          from                                                           *)
(*   joined an observer: when the key just handled was Backspace at column *)
(*          0 of an existing row below the first, the text and the cursor  *)
(*          row _delChar started from                                      *)
(*   typed  an observer: when the key just handled was a printable byte    *)
(*          typed on an existing row, the rows, the cursor and dirty that  *)
(*          _insertChar started from                                       *)
(*   streak an observer: how many Ctrl-Q the key loop has read in a row    *)
(*   disk   the files that exist, by name                                  *)
(*   io     an observer: what the step just taken did with a file,         *)
(*          "loaded", "saved", "no fopen", "short write", "no file", or    *)
(*          "none"                                                         *)
(*   clean  an observer: the characters of the rows at the last load or    *)
(*          complete save                                                  *)
(***************************************************************************)
VARIABLES ed, mode, buf, saved, keys, split, joined, typed, streak, disk,
          io, clean

vars ==
    <<ed, mode, buf, saved, keys, split, joined, typed, streak, disk, io,
      clean>>

NoSaved == [cx |-> 0, cy |-> 0, colOffset |-> 0, rowOffset |-> 0]

\* the characters of every row, in order
TextOf(E) == [p \in 1..NumRows(E) |-> E.rows[p].chars]

NoSplit == [on |-> FALSE, text |-> <<>>, cx |-> 0, cy |-> 0]
SplitOf(E) ==
    IF E.cy < NumRows(E)
    THEN [on |-> TRUE, text |-> TextOf(E), cx |-> E.cx, cy |-> E.cy]
    ELSE NoSplit

NoTyped ==
    [on |-> FALSE, undone |-> FALSE, rows |-> <<>>, cx |-> 0, cy |-> 0,
     dirty |-> 0]
TypedOf(E) ==
    IF E.cy < NumRows(E)
    THEN [on |-> TRUE, undone |-> FALSE, rows |-> E.rows, cx |-> E.cx,
          cy |-> E.cy, dirty |-> E.dirty]
    ELSE NoTyped

\* Backspace is the key behind the typed byte
Undone(ty) ==
    IF ty.on THEN [ty EXCEPT !.on = FALSE, !.undone = TRUE] ELSE NoTyped

NoJoin == [on |-> FALSE, text |-> <<>>, cy |-> 0]
JoinOf(E) ==
    IF E.cx = 0 /\ E.cy > 0 /\ E.cy < NumRows(E)
    THEN [on |-> TRUE, text |-> TextOf(E), cy |-> E.cy]
    ELSE NoJoin

\* the process in _processKeypress for the first time
Waiting(budget) ==
    /\ mode = "edit"
    /\ buf = <<>>
    /\ saved = NoSaved
    /\ keys = MaxKeys - budget
    /\ split = NoSplit
    /\ joined = NoJoin
    /\ typed = NoTyped
    /\ streak = 0
    /\ clean = TextOf(ed)

\* main with a file that exists
OnFile(name, lines) ==
    /\ disk = OneFile(name, Terminated(lines, <<LF>>))
    /\ io = "loaded"

Init ==
    /\ \/ ed = Started(Constructed) /\ disk = NoFiles /\ io = "none"
       \/ \E f \in Files :
             /\ OnFile(f.name, f.lines)
             /\ ed = Started(OpenFile(Constructed, f.name, disk[f.name]))
    /\ Waiting(MaxKeys)

\* _refreshScreen at the head of an iteration of either key loop
Refreshed == Scroll([ed EXCEPT !.cascades = <<>>])

Editing == ed.ok /\ mode = "edit" /\ keys < MaxKeys
Prompting == ed.ok /\ mode = "find" /\ keys < MaxKeys

Rearmed_Never(E) == E

\* quitTimes = EDIT_QUIT_TIMES behind the switch
Rearmed(E) == IF E.ok THEN [E EXCEPT !.quitTimes = EDIT_QUIT_TIMES] ELSE E

\* the end of _processKeypress
Left(E, sp, jn, ty) ==
    /\ ed' = Rearmed(E)
    /\ mode' = "edit"
    /\ buf' = <<>>
    /\ saved' = NoSaved
    /\ keys' = keys + 1
    /\ split' = sp
    /\ joined' = jn
    /\ typed' = ty
    /\ streak' = 0
    /\ io' = "none"
    /\ UNCHANGED <<disk, clean>>

Leave(E, sp, jn) == Left(E, sp, jn, NoTyped)

Return(E, sp) == Leave(E, sp, NoJoin)

Back(E) == Return(E, NoSplit)

(***************************************************************************)
(* _processKeypress, one action per case of its switch.                    *)
(***************************************************************************)
KeyChar(c) ==
    /\ Editing
    /\ \E oob \in BOOLEAN :
          Left(InsertChar(Refreshed, c, oob), NoSplit, NoJoin,
               TypedOf(Refreshed))

KeyEnter ==
    /\ Editing
    /\ \E oob \in BOOLEAN, ub \in BOOLEAN :
          Return(InsertNewLine(Refreshed, oob, ub), SplitOf(Refreshed))

KeyBackspace ==
    /\ Editing
    /\ \E oob \in BOOLEAN :
          Left(DelChar(Refreshed, oob), NoSplit, JoinOf(Refreshed),
               Undone(typed))

KeyDelete ==
    /\ Editing
    /\ \E oob \in BOOLEAN :
          Back(DelChar(MoveCursor(Refreshed, "ARROW_RIGHT"), oob))

KeyArrow(k) ==
    /\ Editing
    /\ Back(MoveCursor(Refreshed, k))

KeyHome ==
    /\ Editing
    /\ Back(Home(Refreshed))

KeyEnd ==
    /\ Editing
    /\ Back(End(Refreshed))

KeyPage(k) ==
    /\ Editing
    /\ Back(Page(Refreshed, k))

\* Ctrl-L and a bare escape
KeyIgnored ==
    /\ Editing
    /\ Back(Refreshed)

\* Ctrl-Q with unsaved changes and a countdown that has not run out: the
\* warning, quitTimes--, and the return before the switch's end
Warned(E) ==
    [SetStatus(E, "WARNING", E.quitTimes) EXCEPT !.quitTimes = @ - 1]

\* Ctrl-Q: the warning, or exit(0)
KeyQuit ==
    /\ Editing
    /\ IF Refreshed.dirty # 0 /\ Refreshed.quitTimes > 0
       THEN /\ ed' = Warned(Refreshed)
            /\ mode' = "edit"
       ELSE /\ ed' = Refreshed
            /\ mode' = "quit"
    /\ buf' = <<>>
    /\ saved' = NoSaved
    /\ keys' = keys + 1
    /\ split' = NoSplit
    /\ joined' = NoJoin
    /\ typed' = NoTyped
    /\ streak' = streak + 1
    /\ io' = "none"
    /\ UNCHANGED <<disk, clean>>

\* Ctrl-F: _find saves the cursor and the offsets and opens the prompt
OpenFind(E) ==
    /\ ed' = SetStatus(E, "Search", 0)
    /\ mode' = IF E.ok THEN "find" ELSE mode
    /\ saved' = IF E.ok
                THEN [cx |-> E.cx, cy |-> E.cy, colOffset |-> E.colOffset,
                      rowOffset |-> E.rowOffset]
                ELSE saved
    /\ buf' = <<>>
    /\ keys' = keys + 1
    /\ split' = NoSplit
    /\ joined' = NoJoin
    /\ typed' = NoTyped
    /\ streak' = 0
    /\ io' = "none"
    /\ UNCHANGED <<disk, clean>>

KeyFind ==
    /\ Editing
    /\ OpenFind(Refreshed)

(***************************************************************************)
(* _prompt, one iteration of its loop per action, with the callback        *)
(* _findAction and, when the prompt returns, the rest of _find.            *)
(***************************************************************************)
Stay(E, b) ==
    /\ ed' = SetStatus(E, "Search", 0)
    /\ buf' = b
    /\ keys' = keys + 1
    /\ split' = NoSplit
    /\ joined' = NoJoin
    /\ typed' = NoTyped
    /\ streak' = 0
    /\ io' = "none"
    /\ UNCHANGED <<mode, saved, disk, clean>>

PromptChar(c) ==
    /\ Prompting /\ Len(buf) < MaxQuery
    /\ \E ub \in BOOLEAN :
          Stay(FindAction(Refreshed, Append(buf, c), c, ub), Append(buf, c))

\* buf.erase(buf.end() - 1) when buf is not empty
Erased(b) == IF Len(b) # 0 THEN SubSeq(b, 1, Len(b) - 1) ELSE b

\* DEL_KEY, Ctrl-H, BACKSPACE
PromptErase ==
    /\ Prompting
    /\ \E ub \in BOOLEAN :
          Stay(FindAction(Refreshed, Erased(buf), "BACKSPACE", ub),
               Erased(buf))

\* the keys that are neither printable nor handled by the prompt
PromptArrow(k) ==
    /\ Prompting
    /\ \E ub \in BOOLEAN : Stay(FindAction(Refreshed, buf, k, ub), buf)

\* _find after the prompt returned "": the cursor and the offsets go back
Restored(E, sv) ==
    IF E.ok
    THEN [E EXCEPT !.cx = sv.cx, !.cy = sv.cy, !.colOffset = sv.colOffset,
                   !.rowOffset = sv.rowOffset]
    ELSE E

\* escape: _prompt returns "" without calling the callback
PromptEscape ==
    /\ Prompting
    /\ Back(Restored(SetStatus(Refreshed, "", 0), saved))

\* return: _prompt returns a non-empty buffer without calling the callback;
\* on an empty one the loop goes on and the callback is called with '\r'
PromptEnter ==
    /\ Prompting
    /\ IF Len(buf) # 0
       THEN Back(SetStatus(Refreshed, "", 0))
       ELSE Stay(FindAction(Refreshed, buf, "ENTER", FALSE), buf)

(***************************************************************************)
(* Ctrl-S: _save, with the _prompt it opens when there is no file name.    *)
(***************************************************************************)
\* _selectSyntaxHighlight: the loop over the rows when a syntax matches
RECURSIVE Rescan(_, _, _)
Rescan(E, i, oob) ==
    IF ~E.ok \/ i >= NumRows(E) THEN E
    ELSE Rescan(UpdateSyntax([E EXCEPT !.cascades = Append(@, <<>>)],
                             i, oob, 0),
                i + 1, oob)

SelectSyntaxHighlight(E, oob) ==
    IF SyntaxFor(E.filename) = NoSyntax THEN [E EXCEPT !.syntax = NoSyntax]
    ELSE Rescan([E EXCEPT !.syntax = SyntaxFor(E.filename)], 0, oob)

\* the end of _save, back in _processKeypress
Finish(E, fs, outcome, text) ==
    /\ ed' = Rearmed(E)
    /\ mode' = "edit"
    /\ buf' = <<>>
    /\ saved' = NoSaved
    /\ keys' = keys + 1
    /\ split' = NoSplit
    /\ joined' = NoJoin
    /\ typed' = NoTyped
    /\ streak' = 0
    /\ disk' = fs
    /\ io' = outcome
    /\ clean' = text

\* fopen(_filename, "w") returns null
NotOpened(E) == SetStatus(E, "Can't open file for write", 0)

\* fwrite comes back short on the k-th row
CutShort(E, k) == SetStatus(E, "Can't save! I/O error", Len(Written(E, k)))

\* every fwrite took its row
WroteAll(E) ==
    SetStatus([E EXCEPT !.dirty = 0], "bytes written to disk",
              Len(Written(E, NumRows(E))))

\* _save from its fopen on: fopen fails, or an fwrite of a row that is not
\* empty takes n bytes of it and fails, or all rows are written
Write(E) ==
    \/ Finish(NotOpened(E), disk, "no fopen", clean)
    \/ \E k \in 1..NumRows(E) :
          \E n \in 0..(Len(E.rows[k].chars) - 1) :
             Finish(CutShort(E, k),
                    Put(disk, E.filename,
                        Written(E, k - 1) \o SubSeq(E.rows[k].chars, 1, n)),
                    "short write", clean)
    \/ Finish(WroteAll(E), Put(disk, E.filename, Written(E, NumRows(E))),
              "saved", TextOf(E))

\* _save without a file name: the prompt opens
OpenSaveAs(E) ==
    /\ ed' = SetStatus(E, "Save as", 0)
    /\ mode' = "saveas"
    /\ buf' = <<>>
    /\ keys' = keys + 1
    /\ split' = NoSplit
    /\ joined' = NoJoin
    /\ typed' = NoTyped
    /\ streak' = 0
    /\ io' = "none"
    /\ UNCHANGED <<saved, disk, clean>>

KeySave ==
    /\ Editing
    /\ IF Refreshed.filename = <<>>
       THEN OpenSaveAs(Refreshed)
       ELSE Write(Refreshed)

Naming == ed.ok /\ mode = "saveas" /\ keys < MaxKeys

\* one more iteration of the prompt's loop, no callback
Named(b) ==
    /\ ed' = SetStatus(Refreshed, "Save as", 0)
    /\ buf' = b
    /\ keys' = keys + 1
    /\ split' = NoSplit
    /\ joined' = NoJoin
    /\ typed' = NoTyped
    /\ streak' = 0
    /\ io' = "none"
    /\ UNCHANGED <<mode, saved, disk, clean>>

SaveAsChar(c) ==
    /\ Naming /\ Len(buf) < MaxQuery
    /\ Named(Append(buf, c))

SaveAsErase ==
    /\ Naming
    /\ Named(Erased(buf))

SaveAsArrow ==
    /\ Naming
    /\ Named(buf)

\* escape: the prompt returns "", _save reports and returns
SaveAsEscape ==
    /\ Naming
    /\ Back(SetStatus(Refreshed, "Save aborted", 0))

\* return: on a buffer that is not empty the prompt returns it, it becomes
\* the file name and _save goes on
SaveAsEnter ==
    /\ Naming
    /\ IF Len(buf) # 0
       THEN \E oob \in BOOLEAN :
               Write(SelectSyntaxHighlight(
                        [SetStatus(Refreshed, "", 0) EXCEPT !.filename = buf],
                        oob))
       ELSE Named(buf)

Next ==
    \/ \E c \in TypedChars : KeyChar(c)
    \/ KeyEnter
    \/ KeyBackspace
    \/ KeyDelete
    \/ \E k \in ArrowKeys : KeyArrow(k)
    \/ KeyHome
    \/ KeyEnd
    \/ \E k \in PageKeys : KeyPage(k)
    \/ KeyIgnored
    \/ KeyFind
    \/ \E c \in TypedChars : PromptChar(c)
    \/ PromptErase
    \/ \E k \in ArrowKeys : PromptArrow(k)
    \/ PromptEscape
    \/ PromptEnter

Spec == Init /\ [][Next]_vars

(***************************************************************************)
(* The cursor walking over one-line files of tabs and other bytes, at      *)
(* each tab stop setTabStop can have set before open().                    *)
(***************************************************************************)
MaxLen     == 3
MaxTabStop == 4

Lines(n) == UNION {[1..k -> {TAB, "/"}] : k \in 0..n}

InitCoord ==
    /\ \E line \in Lines(MaxLen), ts \in 1..MaxTabStop :
          /\ OnFile(NameTxt, <<line>>)
          /\ ed = Started(OpenFile([Constructed EXCEPT !.tabStop = ts],
                                   NameTxt, disk[NameTxt]))
    /\ Waiting(MaxKeys)

NextCoord ==
    \/ \E k \in ArrowKeys : KeyArrow(k)
    \/ KeyHome
    \/ KeyEnd

SpecCoord == InitCoord /\ [][NextCoord]_vars

(***************************************************************************)
(* Search sessions with new lines entered between them, over one more key  *)
(* than Spec spends.                                                       *)
(***************************************************************************)
MaxSearchKeys == 7

InitSearch ==
    /\ \E f \in Files :
          /\ OnFile(f.name, f.lines)
          /\ ed = Started(OpenFile(Constructed, f.name, disk[f.name]))
    /\ Waiting(MaxSearchKeys)

NextSearch ==
    \/ KeyEnter
    \/ KeyFind
    \/ \E c \in TypedChars : PromptChar(c)
    \/ \E k \in ArrowKeys : PromptArrow(k)
    \/ PromptEscape
    \/ PromptEnter

SpecSearch == InitSearch /\ [][NextSearch]_vars

(***************************************************************************)
(* The process from main on, with the files it reads and writes.           *)
(***************************************************************************)
MaxSaveKeys == 4

\* a file name on the command line that is not Files' and a file with
\* "\r\n" at the end of its line
NameNew == <<"n", "e", "w">>
NameDos == <<"d", "o", "s">>

InitSave ==
    /\ ed = Constructed
    /\ disk \in {NoFiles} \cup
                {OneFile(f.name, Terminated(f.lines, <<LF>>)) : f \in Files}
                \cup {OneFile(NameDos, Terminated(<< <<"/">> >>, <<CR, LF>>))}
    /\ mode = "main"
    /\ buf = <<>>
    /\ saved = NoSaved
    /\ keys = MaxKeys - MaxSaveKeys
    /\ split = NoSplit
    /\ joined = NoJoin
    /\ typed = NoTyped
    /\ streak = 0
    /\ io = "none"
    /\ clean = <<>>

\* the step from main into the key loop
Enter(E, outcome) ==
    /\ ed' = E
    /\ mode' = "edit"
    /\ io' = outcome
    /\ clean' = TextOf(E)
    /\ UNCHANGED <<buf, saved, keys, split, joined, typed, streak, disk>>

\* main without an argument: edit()
StartEmpty ==
    /\ mode = "main"
    /\ Enter(Started(ed), "none")

\* main with an argument: open(argv[1]), then edit(); die("fopen()") when
\* the file cannot be opened
OpenArg(name) ==
    /\ mode = "main"
    /\ IF name \in DOMAIN disk
       THEN Enter(Started(OpenFile(ed, name, disk[name])), "loaded")
       ELSE /\ ed' = [ed EXCEPT !.filename = name,
                                !.syntax = SyntaxFor(name)]
            /\ mode' = "died"
            /\ io' = "no file"
            /\ UNCHANGED <<buf, saved, keys, split, joined, typed, streak, disk,
                           clean>>

NextSave ==
    \/ StartEmpty
    \/ \E name \in DOMAIN disk \cup {NameNew} : OpenArg(name)
    \/ KeySave
    \/ \E c \in TypedChars : SaveAsChar(c)
    \/ SaveAsErase
    \/ SaveAsArrow
    \/ SaveAsEscape
    \/ SaveAsEnter
    \/ Next

SpecSave == InitSave /\ [][NextSave]_vars

(***************************************************************************)
(* Bytes typed and deleted inside the rows of a freshly loaded C file made *)
(* of comment delimiters: no row is inserted or removed.                   *)
(***************************************************************************)
MaxLines    == 3
MaxTypeKeys == 4

Marks == {<<>>, <<"/">>, <<"*">>, <<"/", "*">>, <<"*", "/">>}

Texts(n) == UNION {[1..k -> Marks] : k \in 1..n}

InitType ==
    /\ \E lines \in Texts(MaxLines) :
          /\ OnFile(NameC, lines)
          /\ ed = Started(OpenFile(Constructed, NameC, disk[NameC]))
    /\ Waiting(MaxTypeKeys)

OnRow == ed.cy < NumRows(ed)

\* a printable byte with the cursor on a row
TypeInRow(c) == OnRow /\ KeyChar(c)

\* Backspace with a byte before the cursor
BackspaceInRow == OnRow /\ ed.cx > 0 /\ KeyBackspace

\* DEL with a byte under the cursor
DeleteInRow == OnRow /\ ed.cx < Len(RowAt(ed, ed.cy).chars) /\ KeyDelete

NextType ==
    \/ \E c \in TypedChars : TypeInRow(c)
    \/ BackspaceInRow
    \/ DeleteInRow
    \/ \E k \in ArrowKeys : KeyArrow(k)
    \/ KeyHome
    \/ KeyEnd

SpecType == InitType /\ [][NextType]_vars

(***************************************************************************)
(* One-line C files for the scan of a row: the rows the specification      *)
(* names and every row of up to MaxScan bytes over keyword letters, a      *)
(* blank, a digit, a dot, a quote, a slash and an ordinary letter.         *)
(***************************************************************************)
MaxScan     == 4
MaxScanKeys == 2

IntX    == <<"i","n","t"," ","x",";"," ","/","/"," ","c","o","m","m","e","n","t">>
PrintW  == <<"p","r","i","n","t">>
Integer == <<"i","n","t","e","g","e","r">>
Sum     == <<"5"," ","+"," ","3",".","2">>
X1      == <<"x","1">>

Samples == {IntX, PrintW, Integer, Sum, X1}

ScanBytes == {"i", "f", " ", "1", ".", "\"", "/", "x"}

Words(n) == UNION {[1..k -> ScanBytes] : k \in 0..n}

InitScan ==
    /\ \E line \in Samples \cup Words(MaxScan) :
          /\ OnFile(NameC, <<line>>)
          /\ ed = Started(OpenFile(Constructed, NameC, disk[NameC]))
    /\ Waiting(MaxScanKeys)

NextScan ==
    \/ \E c \in TypedChars : TypeInRow(c)
    \/ BackspaceInRow
    \/ DeleteInRow
    \/ KeyArrow("ARROW_RIGHT")
    \/ KeyEnd

SpecScan == InitScan /\ [][NextScan]_vars

(***************************************************************************)
(* DELETE anywhere in a file as it was loaded, between typed bytes and     *)
(* cursor keys.                                                            *)
(***************************************************************************)
MaxDelKeys == 3

InitDel ==
    /\ \E lines \in Texts(MaxLines) :
          /\ OnFile(NameC, lines)
          /\ ed = Started(OpenFile(Constructed, NameC, disk[NameC]))
    /\ Waiting(MaxDelKeys)

NextDel ==
    \/ KeyDelete
    \/ \E c \in TypedChars : KeyChar(c)
    \/ \E k \in ArrowKeys : KeyArrow(k)
    \/ KeyEnd

SpecDel == InitDel /\ [][NextDel]_vars

(***************************************************************************)
(* The window over one row of a C file that holds digits, letters, a form  *)
(* feed and the samples above, after bytes typed into the row and cursor   *)
(* keys that move the window along it.                                     *)
(***************************************************************************)
MaxDraw     == 4
MaxDrawKeys == 3

DrawBytes == {FF, "1", "x"}

InitDraw ==
    /\ \E line \in Samples \cup UNION {[1..k -> DrawBytes] : k \in 1..MaxDraw} :
          /\ OnFile(NameC, <<line>>)
          /\ ed = Started(OpenFile(Constructed, NameC, disk[NameC]))
    /\ Waiting(MaxDrawKeys)

NextDraw ==
    \/ \E c \in DrawBytes \ {FF} : TypeInRow(c)
    \/ \E k \in {"ARROW_LEFT", "ARROW_RIGHT"} : KeyArrow(k)
    \/ KeyHome
    \/ KeyEnd

SpecDraw == InitDraw /\ [][NextDraw]_vars

(***************************************************************************)
(* Leaving the editor: a short file, bytes typed into it, the cursor moved *)
(* over it, Ctrl-S and Ctrl-Q.                                             *)
(***************************************************************************)
MaxQuitKeys == 8

InitQuit ==
    /\ OnFile(NameC, <<<<"i", "f">>>>)
    /\ ed = Started(OpenFile(Constructed, NameC, disk[NameC]))
    /\ Waiting(MaxQuitKeys)

NextQuit ==
    \/ KeyQuit
    \/ KeyChar("x")
    \/ KeyArrow("ARROW_RIGHT")
    \/ KeySave

SpecQuit == InitQuit /\ [][NextQuit]_vars

(***************************************************************************)
(* The properties.                                                         *)
(***************************************************************************)
Positions(E) == 0..(NumRows(E) - 1)

\* C1: after any sequence of row inserts and deletes (Enter, the backspace
\* merge, typing on the virtual last row), every row's idx equals its
\* position in the row list.
C1_IdxIsPosition ==
    ed.ok => \A p \in Positions(ed) : RowAt(ed, p).idx = p

\* C2: when a mutation has returned, every row's render is its chars with
\* each tab expanded to the next tab stop, and rsize is the length of
\* render.
C2_RenderIsFresh ==
    (ed.ok /\ mode = "edit") =>
        \A p \in Positions(ed) :
            /\ RowAt(ed, p).render =
                   RenderOf(RowAt(ed, p).chars, Len(RowAt(ed, p).chars),
                            ed.tabStop)
            /\ RowAt(ed, p).rsize = Len(RowAt(ed, p).render)

\* C3: in every reachable state, search sessions included, each row's hl
\* has as many entries as its render has bytes.
C3_HlAsLongAsRender ==
    ed.ok => \A p \in Positions(ed) :
                 Len(RowAt(ed, p).hl) = Len(RowAt(ed, p).render)

\* the in-comment state at the end of row p when rows 0..p are scanned in
\* order
RECURSIVE OpenAfter(_, _)
OpenAfter(E, p) ==
    IF p < 0 THEN 0
    ELSE ScanRow(HLDB, RowAt(E, p).render, OpenAfter(E, p - 1),
                 FALSE).inComment

\* the stored hl_open_comment of the row before position p, 0 for row 0
OpenBefore(E, p) ==
    IF p > 0 /\ RowAt(E, p - 1).hl_open_comment # 0 THEN 1 ELSE 0

\* C4: after a mutation has returned, no search overlay being active, every
\* row's hl_open_comment is the in-comment state reached by scanning rows
\* 0..i in order, and its hl is a fresh scan of its render seeded with the
\* hl_open_comment of the row before it.
C4_HighlightIsFresh ==
    (ed.ok /\ mode = "edit" /\ ed.syntax # NoSyntax /\ Len(ed.savedHl) = 0)
    => \A p \in Positions(ed) :
           /\ RowAt(ed, p).hl_open_comment = OpenAfter(ed, p)
           /\ RowAt(ed, p).hl =
                  ScanRow(HLDB, RowAt(ed, p).render, OpenBefore(ed, p),
                          FALSE).hl

\* no byte of any row is classified HL_MATCH
NoMatchLeft(E) ==
    \A p \in Positions(E) :
        \A k \in 1..Len(RowAt(E, p).hl) : RowAt(E, p).hl[k] # HL_MATCH

\* C5: once a search cancelled with Escape has returned, no byte of any row
\* is classified HL_MATCH.
C5_EscapeRestoresHl ==
    [][(PromptEscape /\ ed'.ok) => NoMatchLeft(ed')]_vars

\* the character column of the first occurrence of the query in the row at
\* position p
MatchColumn(E, p, query) ==
    RxToCx(RowAt(E, p).chars, RowAt(E, p).size,
           StrStr(RowAt(E, p).render, query), E.tabStop)

\* C6: a search cancelled with Escape leaves cx, cy, rowOffset and
\* colOffset at the values they had when the search was entered; a search
\* committed with Enter on a non-empty query leaves the cursor at the
\* position of the last match found.
C6_FindLeavesCursor ==
    [][ /\ (PromptEscape /\ ed'.ok) =>
               /\ ed'.cx = saved.cx
               /\ ed'.cy = saved.cy
               /\ ed'.rowOffset = saved.rowOffset
               /\ ed'.colOffset = saved.colOffset
        /\ (PromptEnter /\ Len(buf) # 0 /\ ed'.ok /\ ed.last_match # -1) =>
               /\ ed'.cy = ed.last_match
               /\ ed'.cx = MatchColumn(ed, ed.last_match, buf)
      ]_vars

\* C7: Enter on an existing row and then Backspace gives back the same
\* number of rows with the same characters in every row, and the cursor is
\* back where it was.
C7_EnterThenBackspace ==
    [][(KeyBackspace /\ split.on /\ ed'.ok) =>
           /\ TextOf(ed') = split.text
           /\ ed'.cx = split.cx
           /\ ed'.cy = split.cy]_vars

\* C8: for every row, every column c with 0 <= c <= len(chars) and every
\* tab stop >= 1, _rowRxToCx(row, _rowCxToRx(row, c)) = c.
C8_RxToCxInvertsCxToRx ==
    ed.ok =>
        \A p \in Positions(ed) :
            \A c \in 0..Len(RowAt(ed, p).chars) :
                RxToCx(RowAt(ed, p).chars, RowAt(ed, p).size,
                       CxToRx(RowAt(ed, p).chars, c, ed.tabStop),
                       ed.tabStop) = c

\* the cursor stands after a tab that follows another byte, with a
\* character after it, and the tab has moved the render column on
C8_CursorPastTab ==
    /\ ed.ok /\ ed.tabStop >= 2 /\ ed.cy < NumRows(ed)
    /\ ed.cx >= 2 /\ ed.cx < Len(RowAt(ed, ed.cy).chars)
    /\ RowAt(ed, ed.cy).chars[1] # TAB
    /\ RowAt(ed, ed.cy).chars[ed.cx] = TAB
    /\ ed.rx = CxToRx(RowAt(ed, ed.cy).chars, ed.cx, ed.tabStop)
    /\ ed.rx > ed.cx

\* C9: a cascade that starts with the rescan of the row at position i goes
\* on to positions i+1, i+2, ... in that order and scans no row twice.
C9_CascadeGoesForward ==
    ed.ok =>
        \A n \in 1..Len(ed.cascades) :
            \A k \in 1..Len(ed.cascades[n]) :
                ed.cascades[n][k] = ed.cascades[n][1] + (k - 1)

\* C10: after any sequence of keys 0 <= cy <= N and 0 <= cx <= the length
\* of the row at cy, with cx = 0 when cy = N.
C10_CursorInBounds ==
    ed.ok =>
        /\ 0 <= ed.cy /\ ed.cy <= NumRows(ed)
        /\ 0 <= ed.cx
        /\ IF ed.cy = NumRows(ed) THEN ed.cx = 0
           ELSE ed.cx <= Len(RowAt(ed, ed.cy).chars)

\* the text after Enter at (r, col) of text: an empty row before row r when
\* col = 0, else row r cut at col and its suffix as the row after it
SplitText(text, r, col) ==
    IF col = 0
    THEN SubSeq(text, 1, r) \o << <<>> >> \o SubSeq(text, r + 1, Len(text))
    ELSE SubSeq(text, 1, r)
         \o << SubSeq(text[r + 1], 1, col),
               SubSeq(text[r + 1], col + 1, Len(text[r + 1])) >>
         \o SubSeq(text, r + 2, Len(text))

\* C11: Enter at (r, col) on an existing row leaves row r holding
\* chars[0..col) and row r+1 holding chars[col..) (an empty row at r and the
\* old row at r+1 when col = 0), the other rows as they were, and the
\* cursor at (r+1, 0).
C11_EnterSplitsRow ==
    (split.on /\ ed.ok) =>
        /\ TextOf(ed) = SplitText(split.text, split.cy, split.cx)
        /\ ed.cy = split.cy + 1
        /\ ed.cx = 0

\* the render column _scroll computes for the cursor
CursorRx(E) ==
    IF E.cy < NumRows(E)
    THEN CxToRx(RowAt(E, E.cy).chars, E.cx, E.tabStop) ELSE 0

\* C13: after the scroll that precedes each frame,
\* rowOffset <= cy < rowOffset + screenRows and
\* colOffset <= rx < colOffset + screenCols, rx being the tab-expanded
\* column of the cursor, whatever the offsets were before.
C13_CursorInWindow ==
    (ed.ok /\ Refreshed.ok) =>
        /\ Refreshed.rx = CursorRx(ed)
        /\ Refreshed.rowOffset <= Refreshed.cy
        /\ Refreshed.cy < Refreshed.rowOffset + Refreshed.screenRows
        /\ Refreshed.colOffset <= Refreshed.rx
        /\ Refreshed.rx < Refreshed.colOffset + Refreshed.screenCols

\* the prompt is open, the search has stored N in rowOffset, and the scroll
\* brings both offsets back to the cursor
C13_ScrollAfterHit ==
    /\ ed.ok /\ mode = "find" /\ NumRows(ed) > 1
    /\ ed.rowOffset = NumRows(ed) /\ ed.cy = ed.last_match
    /\ Refreshed.ok
    /\ Refreshed.rowOffset = ed.cy
    /\ Refreshed.colOffset > ed.colOffset

\* the offset that moves a window of the given size at offset off by the
\* least amount that shows position at
Nearest(off, size, at) ==
    IF at < off THEN at
    ELSE IF at >= off + size THEN at - size + 1
    ELSE off

\* C14: the scroll leaves rowOffset (colOffset) as it is when the cursor row
\* (render column) is inside the window, else moves it by the least amount
\* that puts the cursor on the nearest edge; it changes neither the cursor
\* nor any row.
C14_ScrollIsMinimal ==
    (ed.ok /\ Refreshed.ok) =>
        /\ Refreshed.rowOffset = Nearest(ed.rowOffset, ed.screenRows, ed.cy)
        /\ Refreshed.colOffset =
               Nearest(ed.colOffset, ed.screenCols, CursorRx(ed))
        /\ Refreshed.cx = ed.cx /\ Refreshed.cy = ed.cy
        /\ Refreshed.rows = ed.rows

\* the cursor is below the window and right of it, and the scroll moves
\* both offsets up to the far edges
C14_ScrollToFarEdge ==
    /\ ed.ok /\ Refreshed.ok
    /\ ed.cy >= ed.rowOffset + ed.screenRows
    /\ CursorRx(ed) >= ed.colOffset + ed.screenCols
    /\ Refreshed.rowOffset = ed.cy - ed.screenRows + 1
    /\ Refreshed.rowOffset > ed.rowOffset
    /\ Refreshed.colOffset > ed.colOffset

\* the text after the row at position r > 0 of text is appended to the row
\* before it and removed
JoinText(text, r) ==
    SubSeq(text, 1, r - 1) \o << text[r] \o text[r + 1] >>
    \o SubSeq(text, r + 2, Len(text))

C16_OutOfRangeIsHarmless ==
    ed.ok =>
        /\ \A at \in {-1, NumRows(ed) + 1} :
               InsertRow(ed, <<"*">>, at, FALSE) = ed
        /\ \A at \in {-1, NumRows(ed), NumRows(ed) + 1} :
               DelRow(ed, at) = ed
        /\ \A p \in Positions(ed) :
               /\ \A at \in {-1, Len(RowAt(ed, p).chars) + 1} :
                      /\ RowInsertChar(ed, p, at, "*", FALSE).ok
                      /\ RowAt(RowInsertChar(ed, p, at, "*", FALSE), p).chars
                             = Append(RowAt(ed, p).chars, "*")
               /\ \A at \in {-1, Len(RowAt(ed, p).chars),
                             Len(RowAt(ed, p).chars) + 1} :
                      RowDelChar(ed, p, at, FALSE) = ed

\* lastMatchRow and direction as the key leaves them before the scan
SearchStart(E, key) == IF key \in ArrowKeys THEN E.last_match ELSE -1
SearchDir(E, key) ==
    IF SearchStart(E, key) = -1 THEN 1
    ELSE IF key \in {"ARROW_LEFT", "ARROW_UP"} THEN -1 ELSE 1

\* the j-th row of the scan, j = 1..N
ScanPos(E, key, j) ==
    (SearchStart(E, key) + SearchDir(E, key) * j) % NumRows(E)

\* the first row of the scan whose render contains the query, -1 if none
FirstHit(E, key, query) ==
    LET js == {j \in 1..NumRows(E) :
                  StrStr(RowAt(E, ScanPos(E, key, j)).render, query) # -1}
    IN  IF js = {} THEN -1
        ELSE ScanPos(E, key, CHOOSE j \in js : \A k \in js : j <= k)

\* where a search keystroke on E must leave the cursor and lastMatchRow of A
SearchLands(E, A, key, query) ==
    IF FirstHit(E, key, query) # -1
    THEN /\ A.cy = FirstHit(E, key, query)
         /\ A.cx = MatchColumn(E, FirstHit(E, key, query), query)
         /\ A.last_match = FirstHit(E, key, query)
    ELSE /\ A.cy = E.cy /\ A.cx = E.cx
         /\ A.last_match = SearchStart(E, key)

\* C17: a search keystroke with a non-empty query scans at most N rows from
\* lastMatchRow + direction, wrapping at both ends; the cursor goes to the
\* first row in that order whose render contains the query, at the
\* character column that the match's render offset has in that row; with
\* no such row the cursor and lastMatchRow stay.
C17_SearchScansInOrder ==
    [][ /\ \A c \in TypedChars :
               (PromptChar(c) /\ ed'.ok) =>
                   SearchLands(ed, ed', c, Append(buf, c))
        /\ \A k \in ArrowKeys :
               (PromptArrow(k) /\ buf # <<>> /\ ed'.ok) =>
                   SearchLands(ed, ed', k, buf)
      ]_vars

\* the positions of the rows whose hl holds a search-match entry
MatchRows(E) ==
    {p \in Positions(E) :
        \E k \in 1..Len(RowAt(E, p).hl) : RowAt(E, p).hl[k] = HL_MATCH}

\* C20: at any time at most one row's hl holds HL_MATCH entries.
C20_OneMatchRow ==
    ed.ok => Cardinality(MatchRows(ed)) <= 1

\* the rows, the cursor and dirty of A are those of E
SameMemory(E, A) ==
    /\ A.rows = E.rows
    /\ A.cx = E.cx /\ A.cy = E.cy
    /\ A.dirty = E.dirty

\* the status message of E is one that reports a failure
ReportsFailure(E) ==
    E.status.text \notin {NoStatus.text, Started(Constructed).status.text,
                          WroteAll(Constructed).status.text}

\* C18: a step in which a file could not be opened, for reading or for
\* writing, or in which a write came back short, leaves the process in the
\* key loop with a status message that reports it, and leaves the rows,
\* the cursor and dirty as they were.
C18_FailureIsReported ==
    [][io' \in {"no file", "no fopen", "short write"} =>
           /\ mode' = "edit"
           /\ ReportsFailure(ed')
           /\ SameMemory(ed, ed')
      ]_vars

\* the rows that open() makes of the file name of fs
Reopened(fs, name) == TextOf(OpenFile(Constructed, name, fs[name]))

\* C19: when the key after a load is Ctrl-S and the save goes through,
\* opening the file that was written gives the rows that the load gave:
\* as many rows, with the same characters.
C19_SaveThenOpenGivesSameRows ==
    [][(io = "loaded" /\ io' = "saved") =>
           Reopened(disk', ed'.filename) = TextOf(ed)]_vars

\* the keys that move the cursor or the window, and the search
Navigation ==
    \/ \E k \in ArrowKeys : KeyArrow(k)
    \/ KeyHome
    \/ KeyEnd
    \/ \E k \in PageKeys : KeyPage(k)
    \/ KeyIgnored

Search ==
    \/ KeyFind
    \/ \E c \in TypedChars : PromptChar(c)
    \/ PromptErase
    \/ \E k \in ArrowKeys : PromptArrow(k)
    \/ PromptEscape
    \/ PromptEnter

\* C15: dirty is 0 right after a load and right after a save that wrote
\* every row; a step other than a load that changes the characters of a
\* row or the number of rows leaves dirty greater than it was; navigation
\* keys and search steps leave dirty as it was; and whenever dirty is 0
\* the rows' characters are those of the last load or complete save.
C15_DirtyCountsChanges ==
    [][ed'.ok =>
           /\ io' \in {"loaded", "saved"} => ed'.dirty = 0
           /\ (io' # "loaded" /\ TextOf(ed') # TextOf(ed)) =>
                  ed'.dirty > ed.dirty
           /\ (Navigation \/ Search) => ed'.dirty = ed.dirty
           /\ ed'.dirty = 0 => TextOf(ed') = clean'
      ]_vars

\* a.txt was loaded, its row was changed and the rows were saved
C15_SavedAfterEdit ==
    /\ ed.ok /\ io = "saved" /\ ed.dirty = 0
    /\ ed.filename = NameTxt
    /\ TextOf(ed) # << <<"/", TAB>> >>

\* C21: after bytes were typed and deleted inside the rows of a freshly
\* loaded buffer, every row's hl and hl_open_comment are what a scan of all
\* rows in order, from row 0 to the last, gives.
C21_CascadeIsFullRescan ==
    ed.ok =>
        \A p \in Positions(ed) :
            /\ RowAt(ed, p).hl_open_comment = OpenAfter(ed, p)
            /\ RowAt(ed, p).hl =
                   ScanRow(HLDB, RowAt(ed, p).render, OpenAfter(ed, p - 1),
                           FALSE).hl

\* the key just handled changed a row and the rescan went on over two more
C21_CascadeOverThreeRows ==
    /\ ed.ok /\ ed.dirty >= 2
    /\ \E k \in 1..Len(ed.cascades) : Len(ed.cascades[k]) >= 3

\* C22: the scan of a row goes through its loop at most once per byte of
\* the row, whatever the read of keywords[j] yields when no keyword
\* matched: each iteration moves the scan position forward or is the last.
C22_ScanAdvancesEveryIteration ==
    (ed.ok /\ ed.syntax # NoSyntax) =>
        \A p \in Positions(ed) : \A oob \in BOOLEAN :
            ScanRow(HLDB, RowAt(ed, p).render, OpenBefore(ed, p), oob).iters
                <= Len(RowAt(ed, p).render)

Keywords == {HL_KEYWORD1, HL_KEYWORD2}

\* the keyword the mark m of a scan of render stands for is there, with a
\* separator or the end of the row behind it, prevSep was set, and its
\* bytes have the class that its trailing '|' or the lack of it gives
MarkIsRight(render, hl, m) ==
    LET kw   == HLDB.keywords[m.j]
        klen == Len(KwText(kw))
    IN  /\ m.prevSep # 0
        /\ SubSeq(render, m.at + 1, m.at + klen) = KwText(kw)
        /\ m.at + klen <= Len(render)
        /\ m.at + klen = Len(render) \/ isSeparator(render[m.at + klen + 1])
        /\ \A k \in (m.at + 1)..(m.at + klen) :
               hl[k] = IF kw[Len(kw)] = "|" THEN HL_KEYWORD2
                       ELSE HL_KEYWORD1

\* every keyword byte of the scan R of render lies in a mark that is right
KeywordsAreRight(render, R) ==
    /\ \A m \in 1..Len(R.marks) : MarkIsRight(render, R.hl, R.marks[m])
    /\ \A k \in 1..Len(render) :
           R.hl[k] \in Keywords =>
               \E m \in 1..Len(R.marks) :
                   /\ R.marks[m].at < k
                   /\ k <= R.marks[m].at
                           + Len(KwText(HLDB.keywords[R.marks[m].j]))

\* C23: in every row of a C file a byte is classified as keyword only
\* inside a span that spells a keyword of the list, that the scan reached
\* with prevSep set and that is followed by a separator or the end of the
\* row; the span is HL_KEYWORD2 when the entry ends in '|' and
\* HL_KEYWORD1 otherwise.  In "int x; // comment" the bytes of int are
\* HL_KEYWORD2, " x; " is HL_NORMAL and the rest HL_COMMENT; "print" and
\* "integer" have no keyword byte.
C23_KeywordsAtWordStarts ==
    (ed.ok /\ ed.syntax # NoSyntax) =>
        \A p \in Positions(ed) :
            /\ \A oob \in BOOLEAN :
                   /\ RowAt(ed, p).hl =
                          ScanRow(HLDB, RowAt(ed, p).render,
                                  OpenBefore(ed, p), oob).hl
                   /\ KeywordsAreRight(RowAt(ed, p).render,
                          ScanRow(HLDB, RowAt(ed, p).render,
                                  OpenBefore(ed, p), oob))
            /\ RowAt(ed, p).render = IntX =>
                   RowAt(ed, p).hl = Fill(3, HL_KEYWORD2)
                                     \o Fill(4, HL_NORMAL)
                                     \o Fill(10, HL_COMMENT)
            /\ RowAt(ed, p).render \in {PrintW, Integer} =>
                   \A k \in 1..Len(RowAt(ed, p).hl) :
                       RowAt(ed, p).hl[k] \notin Keywords

\* a row rescanned after a key holds the keyword if with a byte typed
\* behind it
C23_KeywordBeforeTypedByte ==
    /\ ed.ok /\ ed.dirty > 0
    /\ \E p \in Positions(ed) :
           /\ RowAt(ed, p).render \in {<<"i", "f", c>> : c \in TypedChars}
           /\ RowAt(ed, p).hl[1] = HL_KEYWORD1

\* the line-comment token stands at position a of render
TokenAt(render, a) ==
    Substr(render, a, Len(HLDB.singleLineCommentStart))
        = HLDB.singleLineCommentStart

\* S, the scan of the bytes before a position, has met a line comment
InLineComment(S) == \E k \in 1..Len(S.hl) : S.hl[k] = HL_COMMENT

\* S, the scan of the bytes before a position, ends inside a string or
\* inside a block comment
Enclosed(S) == S.inString # "" \/ S.inComment # 0

\* what the claim says of a token at position a of row, S being the scan
\* of the bytes of the row before a and first telling that no token stands
\* in the open before a
TokenIsRight(row, a, S, first) ==
    IF InLineComment(S) THEN TRUE
    ELSE IF Enclosed(S) THEN row.hl[a + 1] # HL_COMMENT
    ELSE /\ \A k \in (a + 1)..Len(row.hl) : row.hl[k] = HL_COMMENT
         /\ first => /\ SubSeq(row.hl, 1, a) = S.hl
                     /\ row.hl_open_comment = S.inComment

\* the scan of the first a bytes of row
Before(row, a, seed, oob) ==
    ScanRow(HLDB, SubSeq(row.render, 1, a), seed, oob)

\* position a of row is outside strings, block comments and line comments
InTheOpen(row, a, seed, oob) ==
    /\ ~InLineComment(Before(row, a, seed, oob))
    /\ ~Enclosed(Before(row, a, seed, oob))

\* C24: a line-comment token at a position outside strings and block
\* comments makes every byte from there to the end of the row HL_COMMENT,
\* and where the first such token stands the bytes before it and the
\* row's hl_open_comment are what the scan of those bytes alone gives; a
\* token inside a string or a block comment starts no line comment.
C24_LineCommentToEndOfRow ==
    (ed.ok /\ ed.syntax # NoSyntax) =>
        \A p \in Positions(ed) : \A oob \in BOOLEAN :
            \A a \in 0..(Len(RowAt(ed, p).render) - 1) :
                TokenAt(RowAt(ed, p).render, a) =>
                    TokenIsRight(RowAt(ed, p), a,
                        Before(RowAt(ed, p), a, OpenBefore(ed, p), oob),
                        \A b \in 0..(a - 1) :
                            ~ /\ TokenAt(RowAt(ed, p).render, b)
                              /\ InTheOpen(RowAt(ed, p), b,
                                           OpenBefore(ed, p), oob))

\* a row rescanned after a key has a line comment behind a keyword and a
\* blank
C24_CommentBehindKeyword ==
    /\ ed.ok /\ ed.dirty > 0
    /\ \E p \in Positions(ed) :
           /\ RowAt(ed, p).render = <<"i", "f", " ", "/", "/">>
           /\ RowAt(ed, p).hl =
                  <<HL_KEYWORD1, HL_KEYWORD1, HL_NORMAL, HL_COMMENT,
                    HL_COMMENT>>

\* the bytes of identifiers that are not digits
Letters ==
    {"a", "b", "c", "d", "e", "f", "g", "h", "i", "j", "k", "l", "m", "n",
     "o", "p", "q", "r", "s", "t", "u", "v", "w", "x", "y", "z", "_"}

\* the classes of the bytes inside strings and comments
Quoted == {HL_STRING, HL_COMMENT, HL_MLCOMMENT}

\* what the claim says of the byte at position k (from 1) of row
NumberIsRight(row, k) ==
    /\ ( /\ row.render[k] \in Digits
         /\ row.hl[k] \notin Quoted
         /\ \/ k = 1
            \/ isSeparator(row.render[k - 1])
            \/ row.hl[k - 1] = HL_NUMBER )
       => row.hl[k] = HL_NUMBER
    /\ (row.render[k] = "." /\ row.hl[k] = HL_NUMBER)
       => (k > 1 /\ row.hl[k - 1] = HL_NUMBER)
    /\ (row.render[k] \in Digits /\ k > 1 /\ row.render[k - 1] \in Letters)
       => row.hl[k] # HL_NUMBER

\* C25: under the C rules, in every row, a digit outside strings and
\* comments is HL_NUMBER when it is the first byte of the row or the byte
\* before it is a separator or HL_NUMBER; a '.' is HL_NUMBER only behind a
\* HL_NUMBER byte; a digit behind a letter is not HL_NUMBER; and "5 + 3.2"
\* is NUMBER, NORMAL, NORMAL, NORMAL, NUMBER, NUMBER, NUMBER.
C25_NumbersAfterSeparators ==
    (ed.ok /\ ed.syntax # NoSyntax) =>
        \A p \in Positions(ed) :
            /\ \A k \in 1..Len(RowAt(ed, p).render) :
                   NumberIsRight(RowAt(ed, p), k)
            /\ RowAt(ed, p).render = Sum =>
                   RowAt(ed, p).hl =
                       <<HL_NUMBER, HL_NORMAL, HL_NORMAL, HL_NORMAL,
                         HL_NUMBER, HL_NUMBER, HL_NUMBER>>
            /\ RowAt(ed, p).render = X1 =>
                   RowAt(ed, p).hl = <<HL_NORMAL, HL_NORMAL>>

\* a row rescanned after a key has a number on each side of a typed '*'
\* and a '.' inside the second
C25_NumbersAroundTypedByte ==
    /\ ed.ok /\ ed.dirty > 0
    /\ \E p \in Positions(ed) :
           /\ RowAt(ed, p).render = <<"1", "*", "1", ".", "1">>
           /\ RowAt(ed, p).hl =
                  <<HL_NUMBER, HL_NORMAL, HL_NUMBER, HL_NUMBER, HL_NUMBER>>

\* a step that reads a Ctrl-Q in _processKeypress
QuitKey == streak' = streak + 1

\* the status message of the Ctrl-Q that is the n-th in a row
Warning(n) == [text |-> "WARNING", bytes |-> EDIT_QUIT_TIMES + 1 - n]

\* C26: a Ctrl-Q with dirty = 0 exits.  With dirty # 0 each of the first
\* three Ctrl-Q in a row stays in the key loop, sets the warning, takes one
\* off the countdown and leaves rows, cursor and dirty alone, and the
\* fourth in a row exits; behind any other key the countdown is back at
\* EDIT_QUIT_TIMES.
C26_QuitOnFourthCtrlQ ==
    [][/\ (QuitKey /\ ed.dirty = 0) => mode' = "quit"
       /\ (QuitKey /\ ed.dirty # 0 /\ streak' <= EDIT_QUIT_TIMES) =>
              /\ mode' = "edit"
              /\ ed'.status = Warning(streak')
              /\ ed'.quitTimes = EDIT_QUIT_TIMES - streak'
              /\ SameMemory(Refreshed, ed')
       /\ (QuitKey /\ ed.dirty # 0 /\ streak' > EDIT_QUIT_TIMES) =>
              /\ streak' = EDIT_QUIT_TIMES + 1
              /\ mode' = "quit"
       /\ (~QuitKey /\ mode' = "edit" /\ ed'.ok) =>
              ed'.quitTimes = EDIT_QUIT_TIMES
      ]_vars

\* unsaved changes are given up by the fourth Ctrl-Q in a row
C26_FourthCtrlQExits ==
    /\ mode = "quit"
    /\ ed.dirty # 0
    /\ streak = EDIT_QUIT_TIMES + 1

\* C27: behind a printable byte typed on a row of a buffer as it was
\* loaded, and the Backspace that follows it, the cursor is where it was
\* before the byte, the row has the characters, the rendered text and the
\* highlight it had, and every other row has the characters and the
\* highlight it had.
C27_TypeThenBackspaceRestores ==
    (ed.ok /\ typed.undone /\ typed.dirty = 0) =>
        /\ ed.cx = typed.cx /\ ed.cy = typed.cy
        /\ NumRows(ed) = Len(typed.rows)
        /\ RowAt(ed, typed.cy).render = typed.rows[typed.cy + 1].render
        /\ \A p \in Positions(ed) :
               /\ RowAt(ed, p).chars = typed.rows[p + 1].chars
               /\ RowAt(ed, p).hl = typed.rows[p + 1].hl

\* the typed byte opened or closed a block comment over the rows below, and
\* the Backspace scanned those rows again
C27_BackspaceUndoesCascade ==
    /\ ed.ok /\ typed.undone /\ typed.dirty = 0
    /\ \E k \in 1..Len(ed.cascades) : Len(ed.cascades[k]) >= 3
    /\ \A p \in Positions(ed) : RowAt(ed, p).hl # <<>>

\* the rows' characters without the byte at (cx, cy)
WithoutByte(text, cx, cy) == [text EXCEPT ![cy + 1] = EraseAt(@, cx)]

\* the rows' characters with row cy + 1 put behind row cy
WithRowsJoined(text, cy) ==
    [p \in 1..(Len(text) - 1) |->
        IF p < cy + 1 THEN text[p]
        ELSE IF p = cy + 1 THEN text[p] \o text[p + 1]
        ELSE text[p + 1]]

\* what DELETE is to make of the rows' characters with the cursor at (cx, cy)
Deleted(text, cx, cy) ==
    IF cy >= Len(text) THEN text
    ELSE IF cx < Len(text[cy + 1]) THEN WithoutByte(text, cx, cy)
    ELSE IF cy + 1 < Len(text) THEN WithRowsJoined(text, cy)
    ELSE text

\* C28: DELETE takes the byte under the cursor out of its row, or puts the
\* next row behind the row whose end the cursor is at, or, at the end of
\* the last row and on the virtual row, leaves the rows alone; in every case
\* the cursor is where it was.
C28_DeleteKeepsCursor ==
    [][(KeyDelete /\ ed'.ok) =>
           /\ TextOf(ed') = Deleted(TextOf(ed), ed.cx, ed.cy)
           /\ ed'.cx = ed.cx /\ ed'.cy = ed.cy
      ]_vars

\* the escape sequences that set the foreground colour
ColourEscapes == {FgDefault} \cup {Sgr(color) : color \in 30..37}

Escapes == ColourEscapes \cup {Invert, Reset, ClearEol, CrLf}

IsByte(token) == token \notin Escapes

\* the escape that sets the colour of a byte with highlight hl
Wanted(hl) == IF hl = HL_NORMAL THEN FgDefault ELSE Sgr(SyntaxToColor(hl))

\* the colour in force behind the first k tokens of out, as the escape
\* that set it
RECURSIVE Running(_, _)
Running(out, k) ==
    IF k = 0 \/ out[k] = Reset THEN FgDefault
    ELSE IF out[k] \in ColourEscapes THEN out[k]
    ELSE Running(out, k - 1)

\* the position in out of the token of the n-th drawn byte
TokenOf(out, n) ==
    CHOOSE k \in 1..Len(out) :
        /\ IsByte(out[k])
        /\ Cardinality({i \in 1..k : IsByte(out[i])}) = n

\* out is what the claim lets _drawRows append for a row with the bytes
\* render and the highlight hl in a window of screenCols columns at colOffset
DrawnRight(out, render, hl, colOffset, screenCols) ==
    LET n     == Len(out) - 3
        last  == Min(colOffset + screenCols, Len(render))
        shown == SubSeq(render, colOffset + 1, last)
        shade == SubSeq(hl, colOffset + 1, last)
        plain == {i \in 1..Len(shown) : ~iscntrl(shown[i])}
    IN  /\ n >= 0
        /\ SubSeq(out, n + 1, n + 3) = <<FgDefault, ClearEol, CrLf>>
        /\ Len(shown) <= screenCols
        /\ Cardinality({k \in 1..n : IsByte(out[k])}) = Len(shown)
        /\ \A i \in 1..Len(shown) :
               out[TokenOf(out, i)] =
                   IF i \in plain THEN shown[i] ELSE Sym(shown[i])
        /\ \A i \in plain :
               Running(out, TokenOf(out, i) - 1) = Wanted(shade[i])
        /\ \A i \in plain :
               (i + 1 \in plain /\ Wanted(shade[i + 1]) = Wanted(shade[i])) =>
                   TokenOf(out, i + 1) = TokenOf(out, i) + 1
        /\ \A k \in 1..n :
               out[k] \in ColourEscapes =>
                   \/ /\ k > 3
                      /\ out[k - 1] = Reset
                      /\ out[k] = Running(out, k - 4)
                   \/ /\ out[k] # Running(out, k - 1)
                      /\ k < n
                      /\ \E i \in plain :
                             /\ TokenOf(out, i) = k + 1
                             /\ Wanted(shade[i]) = out[k]

\* C29: in what _refreshScreen draws for a row of the file, a colour
\* escape stands only in front of a byte whose colour is not the running
\* colour, or behind the reset that follows a control byte, where it
\* restores the running colour; every byte is drawn in the colour of its
\* highlight, neighbours of one colour without an escape between them; the
\* row ends with the default foreground, clear-to-end-of-line and a line
\* break; and the bytes drawn are the row's bytes from colOffset on, at
\* most screenCols of them.
C29_ColourEscapesOnChange ==
    Refreshed.ok =>
        \A y \in 0..(Refreshed.screenRows - 1) :
            y + Refreshed.rowOffset < NumRows(Refreshed) =>
                DrawnRight(DrawLine(Refreshed, y),
                           RowAt(Refreshed, y + Refreshed.rowOffset).render,
                           RowAt(Refreshed, y + Refreshed.rowOffset).hl,
                           Refreshed.colOffset, Refreshed.screenCols)

\* the window one column into the row "111" and a form feed: two digits
\* behind one escape, the form feed inverted, and the colour restored
C29_TwoDigitsOneEscape ==
    /\ Refreshed.ok
    /\ Refreshed.colOffset = 1
    /\ DrawLine(Refreshed, 0) =
           <<"ESC[31m", "1", "1", "ESC[7m", "L", "ESC[m", "ESC[31m",
             "ESC[39m", "ESC[K", "\r\n">>

=============================================================================
